---- MODULE Spec2Model ----
(***************************************************************************)
(* Model of the dataset auditor, audit_mode in                             *)
(* projects/gemma-lab/data_doctor.py: path check, file discovery,          *)
(* tokenizer acquisition, the per-file scan loop, the report and the       *)
(* readiness diagnosis.                                                    *)
(*                                                                         *)
(* Token totals are kept in tenths of a token, so that the fallback        *)
(* estimate `words * 1.3` is the exact integer `words * 13`.               *)
(***************************************************************************)
EXTENDS Integers, Sequences, FiniteSets, Bags

\* ------------------------------------------------------------------ bounds
\* Largest number of directory entries the glob returns.
MaxEntries == 3
\* Lines of the large .jsonl file, and whitespace-separated words of the
\* serialized form of each of its records.
BigLines == 150
BigWords == 60
\* Words of the one long record of the "heavy" .json file: the least number
\* of words whose estimate, 10000.9 tokens, passes the token threshold.
HeavyWords == 7693
\* Lines of the medium text file.
MedLines == 12

\* ------------------------------------------------------- program constants
\* total_tokens is kept in units of 1/TokScale token; 1.3 = ApproxFactor/TokScale.
TokScale == 10
ApproxFactor == 13
\* Thresholds of the readiness score and of the issue display.
MinExamples == 10
GoodExamples == 100
TipExamples == 100
MinTokens == 10000
ShownIssues == 5
ExcellentScore == 4
FairScore == 2

\* ------------------------------------------------------------- JSON values
\* A parsed JSON value, seen through what the audit observes of it:
\*   kind   its Python type after json.loads ("bad": no valid JSON,
\*          "blank": nothing but whitespace);
\*   keys   what `x in value` is true of: the keys of a dict, the members of
\*          a list, the substrings of a str;
\*   words  len(json.dumps(value).split());
\*   toks   len(tokenizer.encode(json.dumps(value)));
\*   elems  the elements of a list.
JVal(kind, keys, words, toks, elems) ==
    [kind |-> kind, keys |-> keys, words |-> words, toks |-> toks, elems |-> elems]

\* Types `in` cannot be applied to: `'output' not in 5` raises TypeError.
NotContainers == {"num", "bool", "null"}

Good(w)    == JVal("dict", {"instruction", "output"}, w, w + 2, <<>>)
Resp(w)    == JVal("dict", {"instruction", "response"}, w, w + 2, <<>>)
Miss(w)    == JVal("dict", {"instruction"}, w, w + 1, <<>>)
Num        == JVal("num", {}, 1, 1, <<>>)
StrOut     == JVal("str", {"output"}, 7, 8, <<>>)
StrPlain   == JVal("str", {}, 4, 5, <<>>)
Bad        == JVal("bad", {}, 2, 3, <<>>)
Blank      == JVal("blank", {}, 0, 0, <<>>)
List(es)   == JVal("list", {}, 1, 1, es)

\* ------------------------------------------------------------------- files
\* One line of content.splitlines(): the JSON value json.loads(line) gives
\* (Blank when line.strip() is empty), len(line.split()) and
\* len(tokenizer.encode(line)).
Line(val, w) == [val |-> val, words |-> w, toks |-> w + 1]

\* A directory entry: its base name, its extension, whether it is a regular
\* file, whether open/read succeeds, and its content seen as
\*   lines  content.splitlines();
\*   whole  json.loads(content).
Entry(name, ext, isfile, readable, lines, whole) ==
    [name |-> name, ext |-> ext, isfile |-> isfile, readable |-> readable,
     lines |-> lines, whole |-> whole]

Rep(n, x) == [i \in 1..n |-> x]

\* The sum of the naturals of the sequence ns: the size of the bag that
\* holds ns[i] + 1 copies of each position i, less one copy of each.
Sum(ns) == BagCardinality([i \in 1..Len(ns) |-> ns[i] + 1]) - Len(ns)

\* len(content.split()): the words of the lines.
SumWords(ls) == Sum([i \in 1..Len(ls) |-> ls[i].words])

\* len(tokenizer.encode(content)), taken as the tokens of the lines.
SumToks(ls) == Sum([i \in 1..Len(ls) |-> ls[i].toks])

\* A one-line .json file holding the value v, written in w words.
JsonFile(name, v, w) == Entry(name, ".json", TRUE, TRUE, <<Line(v, w)>>, v)

\* The directory entries the model draws from.
Catalogue ==
    { Entry("big.jsonl", ".jsonl", TRUE, TRUE,
            Rep(BigLines, Line(Good(BigWords), BigWords - 2)), Bad),
      JsonFile("heavy.json", List(<<Miss(HeavyWords)>>), HeavyWords),
      JsonFile("obj.json", Resp(4), 3),
      JsonFile("num.json", Num, 1),
      JsonFile("broken.json", Bad, 2),
      Entry("broken.jsonl", ".jsonl", TRUE, TRUE,
            <<Line(Good(4), 3), Line(Bad, 2), Line(Good(4), 3)>>, Bad),
      Entry("gaps.jsonl", ".jsonl", TRUE, TRUE,
            <<Line(Good(4), 4), Line(Blank, 0), Line(Miss(3), 2), Line(Blank, 0)>>, Bad),
      JsonFile("mixed.json", List(<<Miss(2), Good(4), Num, Miss(2)>>), 6),
      JsonFile("holes.json", List(<<Miss(2), StrOut, Miss(7), StrPlain>>), 20),
      Entry("notes.txt", ".txt", TRUE, TRUE, Rep(MedLines, Line(Bad, 5)), Bad),
      Entry("locked.csv", ".csv", TRUE, FALSE, <<Line(Bad, 3)>>, Bad),
      Entry("readme.md", ".md", TRUE, TRUE, <<Line(Bad, 4)>>, Bad),
      Entry("dir.json", ".json", FALSE, FALSE, <<>>, Bad) }

\* The paths of the catalogue, and the entry a path names.
Paths == { e.name : e \in Catalogue }

File(path) == CHOOSE e \in Catalogue : e.name = path

\* Sequences over S of length at most n.
SeqsUpTo(S, n) == UNION { [1..k -> S] : k \in 0..n }

\* ------------------------------------------------------------------- state
VARIABLES
    path_exists,     \* os.path.exists(folder_path)
    entries,         \* the paths glob returns under folder_path, in glob's order
    pc,              \* position in audit_mode
    files,           \* the filtered list `files` (paths)
    tokenizer,       \* "unset", "loaded" (a tokenizer object) or "none" (None)
    idx,             \* 1-based position of the for loop in `files`
    total_tokens,    \* in units of 1/TokScale token
    total_examples,
    issues,          \* the list `issues`
    printed,         \* the messages printed before the report, in order
    report,          \* what the report and diagnosis sections print
    issue_src,       \* history: for each issue, the position in `files` it came from
    scan_log,        \* history: one record per executed loop iteration
    tok_attempts,    \* history: calls of AutoTokenizer.from_pretrained
    reads            \* history: calls of open()

vars == <<path_exists, entries, pc, files, tokenizer, idx, total_tokens,
          total_examples, issues, printed, report, issue_src, scan_log,
          tok_attempts, reads>>

inputs == <<path_exists, entries>>

NoReport == [printed |-> FALSE]

\* ------------------------------------------------------------------ issues
RootIssue(name)       == [file |-> name, kind |-> "root", item |-> -1]
MissingIssue(name, i) == [file |-> name, kind |-> "missing", item |-> i]
SyntaxIssue(name)     == [file |-> name, kind |-> "syntax", item |-> -1]
ReadIssue(name)       == [file |-> name, kind |-> "read", item |-> -1]

\* --------------------------------------------------------------- discovery
Compatible == {".json", ".jsonl", ".txt", ".csv"}

\* files = [f for f in files if os.path.isfile(f) and f.endswith(...)]
IsCandidate(path) == File(path).isfile /\ File(path).ext \in Compatible

FilterFiles(es) == SelectSeq(es, IsCandidate)

\* Mutation of CountTokens: the estimate of each text is cut to a whole
\* number of tokens, int(len(text.split()) * 1.3).
CountTokens_RoundedPerElement(x, tok) ==
    IF tok = "loaded" THEN x.toks * TokScale
    ELSE ((x.words * ApproxFactor) \div TokScale) * TokScale

\* ---------------------------------------------------------- token counting
\* len(tokenizer.encode(text)) with a tokenizer, len(text.split()) * 1.3
\* without; x carries the words and the tokens of the text.
CountTokens(x, tok) ==
    IF tok = "loaded" THEN x.toks * TokScale ELSE x.words * ApproxFactor

\* ------------------------------------------------------------ parsing step
\* Mutation of ParseData: line 90 is missing, a single object is not wrapped.
ParseData_NoWrap(f) ==
    IF f.ext = ".jsonl"
    THEN LET ls == SelectSeq(f.lines, LAMBDA l : l.val.kind # "blank") IN
         IF \E i \in 1..Len(ls) : ls[i].val.kind = "bad"
         THEN [ok |-> FALSE, data |-> Bad]
         ELSE [ok |-> TRUE, data |-> List([i \in 1..Len(ls) |-> ls[i].val])]
    ELSE IF f.whole.kind \in {"bad", "blank"}
         THEN [ok |-> FALSE, data |-> Bad]
         ELSE [ok |-> TRUE, data |-> f.whole]

\* Lines 84-90. The value bound to `data`, or the JSONDecodeError json.loads
\* raises. A .jsonl file gives the list of the values of its non-blank lines;
\* a .json file gives its root, a dict wrapped into a one-element list.
NonBlank(l) == l.val.kind # "blank"

ParseData(f) ==
    IF f.ext = ".jsonl"
    THEN LET ls == SelectSeq(f.lines, NonBlank) IN
         IF \E i \in 1..Len(ls) : ls[i].val.kind = "bad"
         THEN [ok |-> FALSE, data |-> Bad]
         ELSE [ok |-> TRUE, data |-> List([i \in 1..Len(ls) |-> ls[i].val])]
    ELSE IF f.whole.kind \in {"bad", "blank"}
         THEN [ok |-> FALSE, data |-> Bad]
         ELSE IF f.whole.kind = "dict"
              THEN [ok |-> TRUE, data |-> List(<<f.whole>>)]
              ELSE [ok |-> TRUE, data |-> f.whole]

\* Mutation of MissingOutput: `or` in the place of `and`.
MissingOutput_Or(item) == "output" \notin item.keys \/ "response" \notin item.keys

\* Line 100: 'output' not in item and 'response' not in item.
MissingOutput(item) == "output" \notin item.keys /\ "response" \notin item.keys

\* Lines 99-108, the loop over enumerate(data). It stops at the first element
\* the `in` test raises TypeError on (1-based; Len(data) + 1 when none does).
FirstRaising(data) ==
    LET rs == {i \in 1..Len(data) : data[i].kind \in NotContainers}
    IN IF rs = {} THEN Len(data) + 1
       ELSE CHOOSE i \in rs : \A j \in rs : i <= j

\* The tokens added to file_tokens and the issues appended by the elements
\* the loop gets through, and whether it ended in the TypeError.
ContentCheck(name, data, tok) ==
    LET stop == FirstRaising(data)
        missing == SelectSeq([i \in 1..(stop - 1) |-> i],
                             LAMBDA i : MissingOutput(data[i]))
    IN [file_tokens |-> Sum([i \in 1..(stop - 1) |-> CountTokens(data[i], tok)]),
        issues |-> [k \in 1..Len(missing) |-> MissingIssue(name, missing[k] - 1)],
        raised |-> stop <= Len(data)]

\* Lines 74-123, one iteration of the loop up to the accumulation: the
\* values of file_examples and file_tokens, the issues appended, and whether
\* the iteration left through `continue` (line 94).
Outcome(ex, tk, iss, cont) ==
    [file_examples |-> ex, file_tokens |-> tk, issues |-> iss, continued |-> cont]

ScanJson(f, tok) ==
    LET p == ParseData(f) IN
    IF ~p.ok THEN Outcome(0, 0, <<SyntaxIssue(f.name)>>, FALSE)
    ELSE IF p.data.kind # "list"
         THEN Outcome(0, 0, <<RootIssue(f.name)>>, TRUE)
         ELSE LET r == ContentCheck(f.name, p.data.elems, tok)
              IN Outcome(Len(p.data.elems), r.file_tokens,
                         IF r.raised THEN Append(r.issues, ReadIssue(f.name))
                                     ELSE r.issues,
                         FALSE)

\* Mutation of ScanText: the text branch tests no tokenizer and always
\* estimates from the words.
ScanText_AlwaysApprox(f, tok) ==
    Outcome(Len(f.lines),
            CountTokens([words |-> SumWords(f.lines), toks |-> SumToks(f.lines)], "none"),
            <<>>, FALSE)

\* Lines 114-120: a text-like file.
ScanText(f, tok) ==
    Outcome(Len(f.lines),
            CountTokens([words |-> SumWords(f.lines), toks |-> SumToks(f.lines)], tok),
            <<>>, FALSE)

ScanFile(f, tok) ==
    IF ~f.readable THEN Outcome(0, 0, <<ReadIssue(f.name)>>, FALSE)
    ELSE IF f.ext \in {".json", ".jsonl"} THEN ScanJson(f, tok)
         ELSE ScanText(f, tok)

\* Lines 104-120: the texts one iteration counts the tokens of, in order:
\* the serialized form of each element the content check gets through, or
\* the whole content of a text-like file; none when the iteration fails
\* before it counts.
CountedTexts(f) ==
    IF ~f.readable THEN <<>>
    ELSE IF f.ext \in {".json", ".jsonl"}
         THEN LET p == ParseData(f) IN
              IF ~p.ok \/ p.data.kind # "list" THEN <<>>
              ELSE SubSeq(p.data.elems, 1, FirstRaising(p.data.elems) - 1)
         ELSE <<[words |-> SumWords(f.lines), toks |-> SumToks(f.lines)]>>

\* ------------------------------------------------- floating-point totals
\* In fallback mode file_tokens and total_tokens are Python floats (IEEE-754
\* doubles). The double the program holds is kept as the pair [t, r]:
\*   t  the value in tenths of a token were the arithmetic exact;
\*   r  the deviation of the double from it, in units of 1/(10 * 2^52):
\*      double = t / 10 + r / (10 * 2^52).
\* With M the double in units of 2^-52, 10 * M = t * 2^52 + r: r is even,
\* and 5 * M = r / 2 modulo every power of two up to 2^51.
Float(t, r) == [t |-> t, r |-> r]

\* The int 0 that file_tokens and total_tokens start from (lines 61, 74).
Zero == Float(0, 0)

\* The e with 2^e <= t/10 < 2^(e+1), for t >= 10: the doubles of that
\* range are the multiples of 2^(e-52).
RECURSIVE Exponent(_)
Exponent(t) == IF t < 2 * TokScale THEN 0 ELSE 1 + Exponent(t \div 2)

\* The M in 0..(n-1) with 5 * M = h modulo n, n a power of two.
FifthMod(h, n) ==
    LET k == CHOOSE k \in 0..4 : (h + k * n) % 5 = 0
    IN (h + k * n) \div 5

\* The step from M to the nearest multiple of u, ties to the even multiple;
\* m2 is M modulo 2 * u.
ToNearest(m2, u) ==
    LET m == m2 % u IN
    IF 2 * m < u THEN 0 - m
    ELSE IF 2 * m > u THEN u - m
         ELSE IF m2 < u THEN 0 - m ELSE u - m

\* Round to nearest, ties to even: the double nearest to the real number the
\* pair [t, r] stands for. Below 2 every multiple of 2^-52 is a double.
Round(t, r) ==
    IF t < 2 * TokScale THEN Float(t, r)
    ELSE LET u == 2 ^ Exponent(t)
         IN Float(t, r + TokScale * ToNearest(FifthMod((r \div 2) % (2 * u), 2 * u), u))

\* Line 108 and line 120, `words * 1.3`: the literal 1.3 is the double
\* 1.3 + 2 / (10 * 2^52), the int is converted exactly, the product is
\* rounded once.
Product(words) == Round(words * ApproxFactor, words * 2)

\* Lines 108, 120 and 125, `+=` on floats: the exact sum, rounded once.
Add(x, y) == Round(x.t + y.t, x.r + y.r)

\* Lines 99-108: file_tokens after the texts xs[lo..hi] were added to acc,
\* in order. The range is halved to keep the evaluation shallow, and the
\* first half is computed (AndThen looks at it) before the second starts.
RECURSIVE AddTexts(_, _, _, _)
AndThen(acc, xs, lo, hi) ==
    IF acc.t >= 0 THEN AddTexts(acc, xs, lo, hi) ELSE acc

AddTexts(acc, xs, lo, hi) ==
    IF lo > hi THEN acc
    ELSE IF lo = hi THEN Add(acc, Product(xs[lo].words))
         ELSE AndThen(AddTexts(acc, xs, lo, (lo + hi) \div 2),
                      xs, (lo + hi) \div 2 + 1, hi)

\* file_tokens at line 125, in fallback mode.
FileFloat(f) == AddTexts(Zero, CountedTexts(f), 1, Len(CountedTexts(f)))

\* Line 125: total_tokens after the first n files of fs, in fallback mode.
RECURSIVE TotalFloat(_, _)
TotalFloat(fs, n) ==
    IF n = 0 THEN Zero ELSE Add(TotalFloat(fs, n - 1), FileFloat(File(fs[n])))

\* int(x) of a double x >= 0: r is too small to move the integer part of a
\* value that is no whole number, and takes a whole one just below itself
\* when negative.
IntPart(x) ==
    IF x.t % TokScale = 0 /\ x.r < 0 THEN x.t \div TokScale - 1
    ELSE x.t \div TokScale

\* Line 132, int(total_tokens): of the int the tokenizer's counts add up
\* to, or of the double of the fallback mode, which stands for the number
\* `tokens` of tenths (its deviation is looked at only where it decides).
PrintedTokens(tokens, tok, fs) ==
    IF tok = "none" /\ tokens % TokScale = 0
    THEN IntPart(TotalFloat(fs, Len(fs)))
    ELSE tokens \div TokScale

\* ------------------------------------------------------- report, diagnosis
\* Mutation of ReadinessScore: `if issues` in the place of `if not issues`.
ReadinessScore_IssuesInverted(examples, tokens, n_issues) ==
      (IF examples > MinExamples THEN 1 ELSE 0)
    + (IF examples > GoodExamples THEN 1 ELSE 0)
    + (IF tokens > MinTokens * TokScale THEN 1 ELSE 0)
    + (IF n_issues # 0 THEN 1 ELSE 0)

\* Lines 145-149.
ReadinessScore(examples, tokens, n_issues) ==
      (IF examples > MinExamples THEN 1 ELSE 0)
    + (IF examples > GoodExamples THEN 1 ELSE 0)
    + (IF tokens > MinTokens * TokScale THEN 1 ELSE 0)
    + (IF n_issues = 0 THEN 1 ELSE 0)

\* Mutation of Tier: the Fair branch starts at score 1.
Tier_LowFair(score) ==
    IF score >= ExcellentScore THEN "Excellent"
    ELSE IF score >= FairScore - 1 THEN "Fair"
         ELSE "Needs Work"

\* Mutation of Tier: the Fair branch tests score == 2.
Tier_FairOnlyAtTwo(score) ==
    IF score >= ExcellentScore THEN "Excellent"
    ELSE IF score = FairScore THEN "Fair"
         ELSE "Needs Work"

\* Lines 151-158.
Tier(score) ==
    IF score >= ExcellentScore THEN "Excellent"
    ELSE IF score >= FairScore THEN "Fair"
         ELSE "Needs Work"

\* Line 155: the tip of the Fair branch.
Tip(score, examples) == Tier(score) = "Fair" /\ examples < TipExamples

\* Mutation of Shown: the slice [:5] is missing.
Shown_All(iss) == iss

\* Lines 135-141: issues[:5] and the "...and N more" line.
Shown(iss) == SubSeq(iss, 1, IF Len(iss) < ShownIssues THEN Len(iss) ELSE ShownIssues)

HasMore(iss) == Len(iss) > ShownIssues

\* Lines 129-158.
MakeReport(fs, examples, tokens, iss, shown_tokens) ==
    LET score == ReadinessScore(examples, tokens, Len(iss)) IN
    [printed |-> TRUE,
     total_files |-> Len(fs),
     total_examples |-> examples,
     total_tokens |-> shown_tokens,
     shown |-> Shown(iss),
     has_more |-> HasMore(iss),
     more |-> IF HasMore(iss) THEN Len(iss) - ShownIssues ELSE 0,
     score |-> score,
     tier |-> Tier(score),
     tip |-> Tip(score, examples)]

\* ----------------------------------------------------------------- actions
Init ==
    /\ path_exists \in BOOLEAN
    /\ entries \in SeqsUpTo(Paths, MaxEntries)
    /\ (~path_exists => entries = <<>>)
    /\ pc = "start"
    /\ files = <<>>
    /\ tokenizer = "unset"
    /\ idx = 0
    /\ total_tokens = 0
    /\ total_examples = 0
    /\ issues = <<>>
    /\ printed = <<>>
    /\ report = NoReport
    /\ issue_src = <<>>
    /\ scan_log = <<>>
    /\ tok_attempts = 0
    /\ reads = 0

\* Mutation of PathMissing: the `return` of line 50 is missing; the glob of
\* the missing path finds nothing and the audit ends at line 57.
PathMissing_NoReturn ==
    /\ pc = "start"
    /\ ~path_exists
    /\ printed' = printed \o <<"header", "scanning", "path_missing", "no_files">>
    /\ pc' = "done"
    /\ UNCHANGED <<inputs, files, tokenizer, idx, total_tokens, total_examples,
                   issues, report, issue_src, scan_log, tok_attempts, reads>>

\* Lines 45-50: the path does not exist.
PathMissing ==
    /\ pc = "start"
    /\ ~path_exists
    /\ printed' = printed \o <<"header", "scanning", "path_missing">>
    /\ pc' = "done"
    /\ UNCHANGED <<inputs, files, tokenizer, idx, total_tokens, total_examples,
                   issues, report, issue_src, scan_log, tok_attempts, reads>>

\* Mutation of NoFiles: the `return` of line 57 is missing; the audit goes
\* on with an empty list of files.
NoFiles_NoReturn ==
    /\ pc = "start"
    /\ path_exists
    /\ FilterFiles(entries) = <<>>
    /\ files' = FilterFiles(entries)
    /\ printed' = printed \o <<"header", "scanning", "no_files", "found">>
    /\ total_tokens' = 0
    /\ total_examples' = 0
    /\ issues' = <<>>
    /\ pc' = "tokenizer"
    /\ UNCHANGED <<inputs, tokenizer, idx, report, issue_src, scan_log,
                   tok_attempts, reads>>

\* Lines 45-57: the path exists and holds no compatible file.
NoFiles ==
    /\ pc = "start"
    /\ path_exists
    /\ FilterFiles(entries) = <<>>
    /\ files' = FilterFiles(entries)
    /\ printed' = printed \o <<"header", "scanning", "no_files">>
    /\ pc' = "done"
    /\ UNCHANGED <<inputs, tokenizer, idx, total_tokens, total_examples,
                   issues, report, issue_src, scan_log, tok_attempts, reads>>

\* Lines 45-63: compatible files were found; the accumulators start empty.
FoundFiles ==
    /\ pc = "start"
    /\ path_exists
    /\ FilterFiles(entries) # <<>>
    /\ files' = FilterFiles(entries)
    /\ printed' = printed \o <<"header", "scanning", "found">>
    /\ total_tokens' = 0
    /\ total_examples' = 0
    /\ issues' = <<>>
    /\ pc' = "tokenizer"
    /\ UNCHANGED <<inputs, tokenizer, idx, report, issue_src, scan_log,
                   tok_attempts, reads>>

\* Lines 66-68: AutoTokenizer.from_pretrained returns a tokenizer.
TokenizerLoaded ==
    /\ pc = "tokenizer"
    /\ tok_attempts' = tok_attempts + 1
    /\ tokenizer' = "loaded"
    /\ printed' = Append(printed, "tokenizer_loaded")
    /\ idx' = 1
    /\ pc' = "scan"
    /\ UNCHANGED <<inputs, files, total_tokens, total_examples, issues, report,
                   issue_src, scan_log, reads>>

\* Lines 66-71: AutoTokenizer.from_pretrained raises; tokenizer = None.
TokenizerFailed ==
    /\ pc = "tokenizer"
    /\ tok_attempts' = tok_attempts + 1
    /\ tokenizer' = "none"
    /\ printed' = Append(printed, "tokenizer_warning")
    /\ idx' = 1
    /\ pc' = "scan"
    /\ UNCHANGED <<inputs, files, total_tokens, total_examples, issues, report,
                   issue_src, scan_log, reads>>

\* Mutation of ProcessFile: `break` in the place of the `continue` of line
\* 94; a root that is no list ends the loop.
ProcessFile_Break ==
    /\ pc = "scan"
    /\ idx <= Len(files)
    /\ \E o \in {ScanFile(File(files[idx]), tokenizer)} :
       LET add_tokens == IF o.continued THEN 0 ELSE o.file_tokens
           add_examples == IF o.continued THEN 0 ELSE o.file_examples
       IN /\ issues' = issues \o o.issues
          /\ issue_src' = issue_src \o [k \in 1..Len(o.issues) |-> idx]
          /\ total_tokens' = total_tokens + add_tokens
          /\ total_examples' = total_examples + add_examples
          /\ scan_log' = Append(scan_log,
                 [pos |-> idx, examples |-> add_examples, tokens |-> add_tokens,
                  n_issues |-> Len(o.issues)])
          /\ idx' = IF o.continued THEN Len(files) + 1 ELSE idx + 1
    /\ reads' = reads + 1
    /\ UNCHANGED <<inputs, pc, files, tokenizer, printed, report, tok_attempts>>

\* Lines 73-126: one iteration of the loop over `files`.
ProcessFile ==
    /\ pc = "scan"
    /\ idx <= Len(files)
    /\ \E o \in {ScanFile(File(files[idx]), tokenizer)} :
       LET add_tokens == IF o.continued THEN 0 ELSE o.file_tokens
           add_examples == IF o.continued THEN 0 ELSE o.file_examples
       IN /\ issues' = issues \o o.issues
          /\ issue_src' = issue_src \o [k \in 1..Len(o.issues) |-> idx]
          /\ total_tokens' = total_tokens + add_tokens
          /\ total_examples' = total_examples + add_examples
          /\ scan_log' = Append(scan_log,
                 [pos |-> idx, examples |-> add_examples, tokens |-> add_tokens,
                  n_issues |-> Len(o.issues)])
    /\ reads' = reads + 1
    /\ idx' = idx + 1
    /\ UNCHANGED <<inputs, pc, files, tokenizer, printed, report, tok_attempts>>

\* Lines 128-158: the loop is over; report and diagnosis.
Report ==
    /\ pc = "scan"
    /\ idx > Len(files)
    /\ report' = MakeReport(files, total_examples, total_tokens, issues,
                            PrintedTokens(total_tokens, tokenizer, files))
    /\ pc' = "done"
    /\ UNCHANGED <<inputs, files, tokenizer, idx, total_tokens, total_examples,
                   issues, printed, issue_src, scan_log, tok_attempts, reads>>

Next ==
    \/ PathMissing
    \/ NoFiles
    \/ FoundFiles
    \/ TokenizerLoaded
    \/ TokenizerFailed
    \/ ProcessFile
    \/ Report

Spec == Init /\ [][Next]_vars

\* ------------------------------------------------------------------ claims
\* The audit has ended with a report (it scanned at least one file).
Reported == pc = "done" /\ report.printed

\* C1: whenever an audit that scanned at least one compatible file has
\* ended, its readiness score is the sum of four points (total_examples > 10,
\* total_examples > 100, total_tokens > 10,000, no issue), lies in 0..4, the
\* tier is Excellent iff score >= 4, Fair iff 2 <= score < 4, Needs Work iff
\* score < 2, and the tip is printed iff the tier is Fair and
\* total_examples < 100.
C1_ScoreAndTier ==
    Reported =>
        /\ Len(files) >= 1
        /\ report.score = (IF total_examples > 10 THEN 1 ELSE 0)
                        + (IF total_examples > 100 THEN 1 ELSE 0)
                        + (IF total_tokens > 10000 * 10 THEN 1 ELSE 0)
                        + (IF issues = <<>> THEN 1 ELSE 0)
        /\ report.score \in 0..4
        /\ (report.tier = "Excellent" <=> report.score >= 4)
        /\ (report.tier = "Fair" <=> (2 <= report.score /\ report.score < 4))
        /\ (report.tier = "Needs Work" <=> report.score < 2)
        /\ (report.tip <=> (report.tier = "Fair" /\ total_examples < 100))

\* The scenario of one .jsonl file of more than 100 records with an output
\* field and more than 10,000 estimated tokens: score 4, Excellent.
C1_Witness ==
    /\ Reported
    /\ files = <<"big.jsonl">>
    /\ tokenizer = "none"
    /\ total_examples > 100
    /\ total_tokens > 10000 * 10
    /\ issues = <<>>
    /\ report.score = 4
    /\ report.tier = "Excellent"

\* A Fair audit below 100 examples, where the tip is printed.
C1_WitnessFairTip ==
    Reported /\ report.tier = "Fair" /\ report.tip /\ total_examples > 10

\* The issues appended while the file at position k of `files` was scanned.
IssuesOf(k) ==
    LET own == SelectSeq([i \in 1..Len(issues) |-> i], LAMBDA i : issue_src[i] = k)
    IN [j \in 1..Len(own) |-> issues[own[j]]]

\* The scan of file f ends in a file-scoped failure: the read fails, the
\* JSON is invalid, the root is no list, or an element of the parsed list
\* makes the field test raise.
FileFails(f) ==
    \/ ~f.readable
    \/ /\ f.ext \in {".json", ".jsonl"}
       /\ \E p \in {ParseData(f)} :
            \/ ~p.ok
            \/ p.data.kind # "list"
            \/ \E i \in 1..Len(p.data.elems) : p.data.elems[i].kind \in NotContainers

\* C2: every file whose processing ended in a file-scoped failure added
\* zero examples, zero tokens and exactly one issue.
C2_FailedFileAddsOneIssueOnly ==
    \A k \in 1..Len(scan_log) :
        FileFails(File(files[scan_log[k].pos])) =>
            /\ scan_log[k].examples = 0
            /\ scan_log[k].tokens = 0
            /\ scan_log[k].n_issues = 1

\* C3: a failure in one file never stops the scan nor changes what the
\* other files contribute: the files are processed once each, in discovery
\* order; the totals are at every moment the sum of what the processed files
\* added; and when the audit ends every file has been processed and has
\* added the counts of its own scan.
C3_FailureIsolated ==
    (pc \in {"scan", "done"} /\ files # <<>>) =>
        /\ Len(scan_log) = idx - 1
        /\ \A k \in 1..Len(scan_log) : scan_log[k].pos = k
        /\ total_examples = Sum([k \in 1..Len(scan_log) |-> scan_log[k].examples])
        /\ total_tokens = Sum([k \in 1..Len(scan_log) |-> scan_log[k].tokens])
        /\ reads = Len(scan_log)
        /\ (pc = "done" =>
              /\ report.printed
              /\ Len(scan_log) = Len(files)
              /\ \A k \in 1..Len(files) :
                    \E o \in {ScanFile(File(files[k]), tokenizer)} :
                        /\ scan_log[k].examples = o.file_examples
                        /\ scan_log[k].tokens = o.file_tokens
                        /\ scan_log[k].n_issues = Len(o.issues))

\* A file that fails between two files that each add examples.
C3_Witness ==
    /\ Reported
    /\ Len(files) = 3
    /\ FileFails(File(files[2]))
    /\ scan_log[1].examples > 0
    /\ scan_log[3].examples > 0
    /\ total_examples >= scan_log[1].examples + scan_log[3].examples

\* The path exists and none of its entries is a compatible regular file.
NoCompatibleFiles ==
    path_exists /\ \A i \in 1..Len(entries) : ~IsCandidate(entries[i])

\* C4 as stated: an audit of an existing directory without compatible files
\* prints the warning and a report with total_files = 0, total_examples = 0,
\* total_tokens = 0 and the tier Needs Work.
C4_EmptyReportPrinted ==
    (pc = "done" /\ NoCompatibleFiles) =>
        /\ \E i \in 1..Len(printed) : printed[i] = "no_files"
        /\ report.printed
        /\ report.total_files = 0
        /\ report.total_examples = 0
        /\ report.total_tokens = 0
        /\ report.tier = "Needs Work"

\* C4 as amended: an audit of an existing directory without compatible
\* files prints the warning as its last message and returns there: no
\* tokenizer is acquired, no file is opened, and no report (totals, issues,
\* tier) is printed.
C4_WarningAndNoReport ==
    (pc = "done" /\ NoCompatibleFiles) =>
        /\ printed = <<"header", "scanning", "no_files">>
        /\ ~report.printed
        /\ files = <<>>
        /\ tokenizer = "unset"
        /\ tok_attempts = 0
        /\ reads = 0

\* A directory that holds entries, none of them compatible, has been audited.
C4_Witness ==
    /\ pc = "done"
    /\ NoCompatibleFiles
    /\ Len(entries) >= 2
    /\ \E i \in 1..Len(entries) : File(entries[i]).ext = ".md"
    /\ \E i \in 1..Len(entries) : ~File(entries[i]).isfile
    /\ printed[Len(printed)] = "no_files"

\* The order of the tiers.
TierRank(t) == IF t = "Excellent" THEN 2 ELSE IF t = "Fair" THEN 1 ELSE 0

\* The example and token totals (in 1/TokScale token) a second audit result
\* is drawn from: next to the result at hand and around the thresholds.
ExampleSamples == {total_examples + 1, 10, 11, 100, 101, 300}

TokenSamples == {total_tokens + 1, 99996, 100000, 100001, 100009, 250000}

\* C5: for the result A of an ended audit and any result B with strictly
\* more examples, strictly more tokens and no more issues, the tier of B is
\* not lower than the tier of A.
C5_TierMonotonic ==
    Reported =>
        \A ex \in ExampleSamples, tk \in TokenSamples, n \in 0..Len(issues) :
            (ex > total_examples /\ tk > total_tokens) =>
                TierRank(Tier(ReadinessScore(ex, tk, n))) >= TierRank(report.tier)

\* A Fair result with issues: a larger result can cost or win points.
C5_Witness ==
    /\ Reported
    /\ report.tier = "Fair"
    /\ issues # <<>>
    /\ total_examples > 10
    /\ \E ex \in ExampleSamples, tk \in TokenSamples :
          /\ ex > total_examples
          /\ tk > total_tokens
          /\ Tier(ReadinessScore(ex, tk, 0)) = "Excellent"

\* The file at position k of `files`.
Scanned(k) == File(files[scan_log[k].pos])

\* f is a readable .json file of valid syntax.
ValidJson(f) == f.readable /\ f.ext = ".json" /\ f.whole.kind \notin {"bad", "blank"}

\* C6: of a syntactically valid .json file, a root that is a single object
\* counts as a one-element list (one example, no root-must-be-a-list issue),
\* and a root that is neither an object nor a list records exactly one
\* issue, the root-must-be-a-list issue, and adds no example and no token.
C6_RootShape ==
    \A k \in 1..Len(scan_log) :
        ValidJson(Scanned(k)) =>
            /\ Scanned(k).whole.kind = "dict" =>
                  /\ scan_log[k].examples = 1
                  /\ \A i \in 1..Len(issues) :
                        issue_src[i] = k => issues[i].kind # "root"
            /\ Scanned(k).whole.kind \notin {"dict", "list"} =>
                  /\ IssuesOf(k) = <<RootIssue(Scanned(k).name)>>
                  /\ scan_log[k].n_issues = 1
                  /\ scan_log[k].examples = 0
                  /\ scan_log[k].tokens = 0

\* A single-object root and a bare-number root have both been scanned.
C6_Witness ==
    /\ Reported
    /\ \E k \in 1..Len(scan_log) :
          ValidJson(Scanned(k)) /\ Scanned(k).whole.kind = "dict"
          /\ scan_log[k].examples = 1
    /\ \E k \in 1..Len(scan_log) :
          ValidJson(Scanned(k)) /\ Scanned(k).whole.kind = "num"
          /\ IssuesOf(k) # <<>>

\* The elements of a readable .json/.jsonl file that parses to a list:
\* the root list (a single object as its only element), or the values of
\* the non-blank lines.
Elements(f) ==
    IF f.ext = ".jsonl"
    THEN LET ls == SelectSeq(f.lines, LAMBDA l : l.val.kind # "blank")
         IN [i \in 1..Len(ls) |-> ls[i].val]
    ELSE IF f.whole.kind = "dict" THEN <<f.whole>> ELSE f.whole.elems

\* f is a readable .json/.jsonl file that parses to a list of objects.
ListOfObjects(f) ==
    /\ f.readable
    /\ f.ext \in {".json", ".jsonl"}
    /\ f.ext = ".json" => f.whole.kind \in {"dict", "list"}
    /\ \E es \in {Elements(f)} : \A i \in 1..Len(es) : es[i].kind = "dict"

\* The 0-based positions, in increasing order, of the elements of es with
\* neither an output nor a response field.
LackingPositions(es) ==
    SelectSeq([i \in 1..Len(es) |-> i - 1],
              LAMBDA q : ~("output" \in es[q + 1].keys \/ "response" \in es[q + 1].keys))

\* C7: when the audit has ended, every scanned .json/.jsonl file that parses
\* to a list of objects has counted as many
\* examples as the list has elements (a .jsonl file: as it has non-blank
\* lines), and the issues recorded for it are exactly one missing-field
\* issue per element with neither an output nor a response field, carrying
\* the element's 0-based position.
C7_ExamplesAndMissingFields ==
    \A k \in 1..Len(scan_log) :
        (pc = "done" /\ ListOfObjects(Scanned(k))) =>
            \E es \in {Elements(Scanned(k))} :
                /\ scan_log[k].examples = Len(es)
                /\ Scanned(k).ext = ".jsonl" =>
                      scan_log[k].examples =
                          Cardinality({i \in 1..Len(Scanned(k).lines) :
                                          Scanned(k).lines[i].words > 0})
                /\ \E ps \in {LackingPositions(es)} :
                      IssuesOf(k) = [j \in 1..Len(ps) |->
                          [file |-> Scanned(k).name, kind |-> "missing", item |-> ps[j]]]

\* A .jsonl file with blank lines and an element lacking both fields, and
\* the .jsonl file of N lines that all hold an output field, have been
\* scanned.
C7_Witness ==
    /\ Reported
    /\ \E k \in 1..Len(scan_log) :
          /\ Scanned(k).name = "gaps.jsonl"
          /\ scan_log[k].examples = 2
          /\ IssuesOf(k) = <<MissingIssue("gaps.jsonl", 1)>>
    /\ \E k \in 1..Len(scan_log) :
          /\ Scanned(k).name = "big.jsonl"
          /\ scan_log[k].examples = BigLines
          /\ IssuesOf(k) = <<>>

\* C8: an audit that ends with total_examples <= 10 and at least one issue
\* has the tier Needs Work, whatever total_tokens is.
C8_FewExamplesWithIssues ==
    (Reported /\ total_examples <= 10 /\ Len(issues) >= 1) =>
        report.tier = "Needs Work"

\* One .json file whose only element lacks both fields and is long enough
\* to pass the token threshold: 1 example, 1 missing-field issue.
C8_Witness ==
    /\ Reported
    /\ Len(files) = 1
    /\ total_examples = 1
    /\ issues = <<MissingIssue(files[1], 0)>>
    /\ total_tokens > 10000 * 10
    /\ report.tier = "Needs Work"

\* s is a prefix of t.
IsPrefix(s, t) == Len(s) <= Len(t) /\ SubSeq(t, 1, Len(s)) = s

\* The issues are in file-then-item order: by position of their file in
\* `files`, and within a file by increasing element position.
FileThenItem ==
    /\ Len(issue_src) = Len(issues)
    /\ \A i, j \in 1..Len(issues) :
          i < j =>
              /\ issue_src[i] <= issue_src[j]
              /\ (issue_src[i] = issue_src[j] /\ issues[i].item >= 0 /\ issues[j].item >= 0)
                    => issues[i].item < issues[j].item

\* The report shows the first min(5, n) issues in order and, iff n > 5, the
\* count n - 5 of the others.
ReportShowsFirstFive ==
    Reported =>
        \E n \in {Len(issues)} :
            /\ report.shown = SubSeq(issues, 1, IF n < 5 THEN n ELSE 5)
            /\ (report.has_more <=> n > 5)
            /\ (n > 5 => report.more = n - 5)

\* C9: the issue list only grows at its end, it is in file-then-item order,
\* and the report shows exactly its first min(5, n) issues and, iff n > 5,
\* the remainder n - 5.
C9_IssueOrderAndDisplay ==
    /\ [](FileThenItem /\ ReportShowsFirstFive)
    /\ [][IsPrefix(issues, issues')]_vars

\* More than five issues from two files, some of them displaced to the
\* remainder count.
C9_Witness ==
    /\ Reported
    /\ Len(issues) > 5
    /\ issue_src[1] # issue_src[Len(issues)]
    /\ \E i \in 1..(Len(issues) - 1) :
          issue_src[i] = issue_src[i + 1] /\ issues[i].item >= 0 /\ issues[i + 1].item > 0
    /\ Len(report.shown) = 5
    /\ report.more = Len(issues) - 5

\* C10: an audit of a path that does not exist prints the path-not-found
\* error and ends there: no tokenizer acquisition, no file read, no totals,
\* no issue, no report with a tier.
C10_MissingPath ==
    (pc = "done" /\ ~path_exists) =>
        /\ printed = <<"header", "scanning", "path_missing">>
        /\ tok_attempts = 0
        /\ tokenizer = "unset"
        /\ reads = 0
        /\ scan_log = <<>>
        /\ files = <<>>
        /\ issues = <<>>
        /\ total_examples = 0
        /\ total_tokens = 0
        /\ ~report.printed

\* The audit of a missing path has ended.
C10_Witness ==
    pc = "done" /\ ~path_exists /\ printed[Len(printed)] = "path_missing"

\* The words, and the tokenizer's tokens, of the texts xs.
WordsOf(xs) == Sum([i \in 1..Len(xs) |-> xs[i].words])

ToksOf(xs) == Sum([i \in 1..Len(xs) |-> xs[i].toks])

\* What one strategy alone counts on the file f, in tenths of a token: the
\* tokenizer's tokens of every counted text, or 1.3 times its words.
CountedBy(f, tok) ==
    IF tok = "loaded" THEN 10 * ToksOf(CountedTexts(f))
    ELSE 13 * WordsOf(CountedTexts(f))

\* Every executed iteration counted with the strategy the acquisition chose.
OneStrategy ==
    \A k \in 1..Len(scan_log) :
        scan_log[k].tokens = CountedBy(File(files[scan_log[k].pos]), tokenizer)

\* C11: an audit that gets to its files attempts the tokenizer acquisition
\* exactly once, before the first file is opened; the outcome is never
\* changed nor the acquisition repeated afterwards, and every file of the
\* run is counted with the one strategy it selected: the tokenizer when it
\* was acquired, the word estimate when it was not.
C11_OneAcquisitionOneStrategy ==
    /\ [](/\ tok_attempts \in {0, 1}
          /\ (tokenizer = "unset" <=> tok_attempts = 0)
          /\ (reads > 0 => tok_attempts = 1)
          /\ (pc = "scan" => tok_attempts = 1)
          /\ (pc = "done" /\ files # <<>> =>
                 /\ tok_attempts = 1
                 /\ Len(scan_log) = Len(files)
                 /\ OneStrategy))
    /\ [][/\ (tokenizer # "unset" =>
                 tokenizer' = tokenizer /\ tok_attempts' = tok_attempts)
          /\ (reads' # reads => tokenizer # "unset" /\ tokenizer' = tokenizer)]_vars

\* A run whose acquisition succeeded, ended after a JSON file and a text
\* file that both had their tokens counted by the tokenizer.
C11_Witness ==
    /\ Reported
    /\ tokenizer = "loaded"
    /\ tok_attempts = 1
    /\ reads >= 2
    /\ \E j, k \in 1..Len(files) :
          /\ File(files[j]).ext = ".jsonl"
          /\ File(files[k]).ext = ".txt"
          /\ scan_log[j].tokens > 0
          /\ scan_log[k].tokens > 0
          /\ scan_log[k].tokens # 13 * WordsOf(CountedTexts(File(files[k])))

\* The same for a run whose acquisition failed.
C11_WitnessFallback ==
    /\ Reported
    /\ tokenizer = "none"
    /\ tok_attempts = 1
    /\ \E j, k \in 1..Len(files) :
          /\ File(files[j]).ext = ".json"
          /\ File(files[k]).ext = ".txt"
          /\ scan_log[j].tokens > 0
          /\ scan_log[k].tokens > 0

\* The words of everything the run counted.
RECURSIVE TotalWords(_, _)
TotalWords(fs, n) ==
    IF n = 0 THEN 0 ELSE TotalWords(fs, n - 1) + WordsOf(CountedTexts(File(fs[n])))

\* The number of texts the run counted.
RECURSIVE TotalTexts(_, _)
TotalTexts(fs, n) ==
    IF n = 0 THEN 0 ELSE TotalTexts(fs, n - 1) + Len(CountedTexts(File(fs[n])))

\* The points of the score other than the token point.
OtherPoints ==
      (IF total_examples > 10 THEN 1 ELSE 0)
    + (IF total_examples > 100 THEN 1 ELSE 0)
    + (IF issues = <<>> THEN 1 ELSE 0)

\* In fallback mode neither an element nor a file is rounded: each file adds
\* 1.3 times its counted words and the total is 1.3 times the words of the
\* run; the token point is given on that unrounded total.
UnroundedTotal ==
    LET W == TotalWords(files, Len(files)) IN
    /\ total_tokens = 13 * W
    /\ \A k \in 1..Len(scan_log) :
          scan_log[k].tokens = 13 * WordsOf(CountedTexts(File(files[scan_log[k].pos])))
    /\ report.score = OtherPoints + (IF 13 * W > 100000 THEN 1 ELSE 0)

\* C12, as worded: in fallback mode total_tokens is 1.3 times the words
\* counted, unrounded, and the report prints the integer part of exactly
\* that number.
C12_PrintsIntegerPartOfExactTotal ==
    (Reported /\ tokenizer = "none") =>
        /\ UnroundedTotal
        /\ report.total_tokens = (13 * TotalWords(files, Len(files))) \div 10

\* C12, amended: in fallback mode total_tokens is the floating-point sum of
\* the products words * 1.3, which is 1.3 times the words counted up to the
\* rounding error of the additions; nothing is rounded per element or per
\* file, the token point is given on the unrounded total, and the report
\* prints the integer part of the floating-point sum: the integer part of
\* 1.3 times the words, or one less than it when that number is whole and
\* the sum of two or more products fell just below it.
C12_FallbackTotal ==
    (Reported /\ tokenizer = "none") =>
        LET exact == 13 * TotalWords(files, Len(files)) IN
        /\ UnroundedTotal
        /\ report.total_tokens \in {exact \div 10, exact \div 10 - 1}
        /\ (report.total_tokens # exact \div 10 =>
               exact % 10 = 0 /\ TotalTexts(files, Len(files)) >= 2)

\* One file of four elements of 2, 7, 7 and 4 words: 20 words, an estimate
\* of 26 tokens, a floating-point sum of 25.999999999999996, 25 printed.
C12_Witness ==
    /\ Reported
    /\ tokenizer = "none"
    /\ files = <<"holes.json">>
    /\ total_tokens = 260
    /\ report.total_tokens = 25

\* One element of 10000.9 estimated tokens: 10,000 is printed and the token
\* point is earned.
C12_WitnessThreshold ==
    /\ Reported
    /\ tokenizer = "none"
    /\ files = <<"heavy.json">>
    /\ total_tokens = 100009
    /\ report.total_tokens = 10000
    /\ report.score = 1

====
